---- MODULE Spec2Model ----
(***************************************************************************)
(* Model of the deployment test worker, tools/runpod-mcp/test-worker.py.   *)
(* One worker process handles requests one after the other.  The state is  *)
(* the process-wide state the handler touches (os.environ, the current     *)
(* directory, the file system) and the position of the running request.    *)
(* Python strings whose content the code inspects (the entrypoint) are     *)
(* tuples of one-character strings; paths are tuples of path components.   *)
(* A fault that leaves runpod_handler ends the worker.                     *)
(***************************************************************************)
EXTENDS Integers, Sequences, FiniteSets, TLC

VARIABLES
    pc,          \* position of the worker inside runpod_handler
    event,       \* the request being handled
    environ,     \* os.environ restricted to EnvKeys
    cwd,         \* the process current directory
    dirs,        \* directories that exist
    files,       \* regular files that exist, with their content
    original_cwd,\* local of execute_entrypoint (Unbound before line 147)
    exc,         \* exception in flight ("none" when there is none)
    retval,      \* value being returned through the with-block
    outcome,     \* what runpod_handler gave its caller for the last request
    escaped,     \* exception that left runpod_handler ("none" otherwise)
    call,        \* the execution strategy invoked for this request
    variants,    \* payload variants handled for this request
    happened,    \* what the subprocess or the loaded script did
    entry_cwd,   \* cwd when execute_entrypoint was entered
    start_cwd    \* cwd when runpod_handler was entered

vars == <<pc, event, environ, cwd, dirs, files, original_cwd, exc,
          retval, outcome, escaped, call, variants, happened, entry_cwd,
          start_cwd>>

----------------------------------------------------------------------------
\* Bounds of the model

\* exit codes a subprocess may end with are 0..MaxReturnCode
MaxReturnCode == 1

----------------------------------------------------------------------------
\* Python strings as character tuples

Colon == ":"
DotPy == <<".", "p", "y">>
DotJs == <<".", "j", "s">>
DotTs == <<".", "t", "s">>

\* str.endswith
EndsWith(s, suffix) ==
    /\ Len(s) >= Len(suffix)
    /\ SubSeq(s, Len(s) - Len(suffix) + 1, Len(s)) = suffix

\* ':' in entrypoint
HasColon(s) == \E i \in 1..Len(s) : s[i] = Colon

FirstColon(s) ==
    CHOOSE i \in 1..Len(s) : s[i] = Colon /\ \A j \in 1..(i - 1) : s[j] # Colon

\* lines 151-155: entrypoint.split(':', 1), function_part None without ':'
ParseEntrypoint(s) ==
    IF HasColon(s)
    THEN [script_part   |-> SubSeq(s, 1, FirstColon(s) - 1),
          has_function  |-> TRUE,
          function_part |-> SubSeq(s, FirstColon(s) + 1, Len(s))]
    ELSE [script_part   |-> s,
          has_function  |-> FALSE,
          function_part |-> <<>>]

\* truth value of function_part at line 159: None and '' are both false
FunctionPartTruthy(d) == d.has_function /\ d.function_part # <<>>

\* the extension looked for in the whole entrypoint instead of script_part
StrategyCallByWholeString(entrypoint) ==
    LET d == ParseEntrypoint(entrypoint) IN
    IF EndsWith(entrypoint, DotPy)
    THEN IF FunctionPartTruthy(d)
         THEN [strategy |-> "execute_python_function",
               arg |-> d.script_part, symbol |-> d.function_part]
         ELSE [strategy |-> "execute_python_script",
               arg |-> d.script_part, symbol |-> <<>>]
    ELSE IF EndsWith(entrypoint, DotJs) \/ EndsWith(entrypoint, DotTs)
         THEN [strategy |-> "execute_node_script",
               arg |-> d.script_part, symbol |-> <<>>]
         ELSE [strategy |-> "execute_shell_command",
               arg |-> entrypoint, symbol |-> <<>>]

\* lines 158-169: the strategy execute_entrypoint calls and its argument
StrategyCall(entrypoint) ==
    LET d == ParseEntrypoint(entrypoint) IN
    IF EndsWith(d.script_part, DotPy)
    THEN IF FunctionPartTruthy(d)
         THEN [strategy |-> "execute_python_function",
               arg |-> d.script_part, symbol |-> d.function_part]
         ELSE [strategy |-> "execute_python_script",
               arg |-> d.script_part, symbol |-> <<>>]
    ELSE IF EndsWith(d.script_part, DotJs) \/ EndsWith(d.script_part, DotTs)
         THEN [strategy |-> "execute_node_script",
               arg |-> d.script_part, symbol |-> <<>>]
         ELSE [strategy |-> "execute_shell_command",
               arg |-> entrypoint, symbol |-> <<>>]

NoCall == [strategy |-> "none", arg |-> <<>>, symbol |-> <<>>]

SubprocessStrategies ==
    {"execute_python_script", "execute_node_script", "execute_shell_command"}

----------------------------------------------------------------------------
\* Paths and the file system

N_a_py == <<"a", ".", "p", "y">>
N_x == <<"x">>
N_sub == <<"s", "u", "b">>
N_up == <<".", ".">>
N_tmp == <<"t", "m", "p">>
N_etc == <<"e", "t", "c">>
N_home == <<"h", "o", "m", "e">>
N_w == <<"w">>
N_zip == <<"d", "e", "p", "l", "o", "y", "m", "e", "n", "t", ".", "z", "i", "p">>
N_extracted == <<"e", "x", "t", "r", "a", "c", "t", "e", "d">>
N_default == <<"d", "e", "p", "l", "o", "y", "e", "d", "_", "f", "i", "l", "e",
               ".", "t", "x", "t">>

Root == <<>>
Home == <<N_home>>
\* the directory tempfile.TemporaryDirectory() makes
TempDir == <<N_tmp, N_w>>
ZipPath == TempDir \o <<N_zip>>
ExtractDir == TempDir \o <<N_extracted>>
\* what the current directory is once the directory it named is removed
Deleted == <<<<"(", "d", "e", "l", "e", "t", "e", "d", ")">>>>
Unbound == <<<<"(", "u", "n", "b", "o", "u", "n", "d", ")">>>>

BaseDirs == {Root, <<N_tmp>>, <<N_etc>>, Home}

IsPrefix(p, q) == Len(p) <= Len(q) /\ SubSeq(q, 1, Len(p)) = p
Parent(p) == SubSeq(p, 1, Len(p) - 1)

\* os.path.join(temp_dir, filename): an absolute filename replaces temp_dir
JoinPath(dir, fn) == IF fn.abs THEN fn.parts ELSE dir \o fn.parts

\* the path the kernel resolves, '..' stepping to the parent
RECURSIVE Resolve(_, _)
Resolve(p, acc) ==
    IF p = <<>> THEN acc
    ELSE IF Head(p) = N_up
         THEN Resolve(Tail(p), IF acc = <<>> THEN acc ELSE Parent(acc))
         ELSE Resolve(Tail(p), Append(acc, Head(p)))

\* open(path, 'w') fails when the parent is no directory or path is one
CanOpenForWrite(D, p) == p # Root /\ Parent(p) \in D /\ p \notin D

\* open(path, 'w'); f.write(content): the file holds exactly content
WriteFile(F, p, content) ==
    {f \in F : f.path # p} \cup {[path |-> p, content |-> content]}

\* only the extraction directory removed, the directory itself left behind
RemoveExtractedOnly(paths) == {p \in paths : ~IsPrefix(ExtractDir, p)}

\* TemporaryDirectory.__exit__: the directory and all below it are removed
RemoveTree(paths) == {p \in paths : ~IsPrefix(TempDir, p)}
RemoveFiles(F) == {f \in F : ~IsPrefix(TempDir, f.path)}
CwdAfterRemove(d) == IF IsPrefix(TempDir, d) THEN Deleted ELSE d

----------------------------------------------------------------------------
\* Requests

EnvKeys == {"K1", "K2"}
EnvValues == {"v1", "v2"}
Unset == "(unset)"
\* a value that is no str, for which os.environ[key] = value raises TypeError
NotAStr == "(int)"
IsStr(v) == v \in EnvValues

Item(k, v) == [key |-> k, value |-> v]
EnvChoices ==
    { <<Item("K1", "v1")>>,
      <<Item("K1", "v2"), Item("K2", "v1")>>,
      <<Item("K1", "v1"), Item("K2", NotAStr)>> }

Contents == {"c1", "c2"}

Rel(parts) == [abs |-> FALSE, parts |-> parts]
Abs(parts) == [abs |-> TRUE, parts |-> parts]
\* line 117: the filename used when the request has none
DefaultFilename == Rel(<<N_default>>)
Filenames ==
    { Rel(<<N_a_py>>), Rel(<<N_up, N_x>>), Abs(<<N_etc, N_x>>),
      Rel(<<N_sub, N_a_py>>) }

E_a_py == N_a_py
E_a_py_run == N_a_py \o <<":", "r", "u", "n">>
E_a_py_colon == N_a_py \o <<":">>
E_a_js == <<"a", ".", "j", "s">>
E_a_ts_x == <<"a", ".", "t", "s", ":", "x">>
E_echo_hi == <<"e", "c", "h", "o", " ", "h", "i">>
E_sh_colon_py == <<"s", "h", ":", "b", ".", "p", "y">>
E_empty == <<>>
Entrypoints ==
    { E_a_py, E_a_py_run, E_a_py_colon, E_a_js, E_a_ts_x, E_echo_hi,
      E_sh_colon_py, E_empty }

\* an artifact string: not base64, base64 of bytes that are no zip archive,
\* base64 of a zip archive holding a.py
Artifacts == {"notbase64", "notzip", "zip"}
ZipEntries == {<<N_a_py>>}

\* a request: the keys it has and their values (a key that is absent has
\* the placeholder value of NoEvent)
NoEvent ==
    [keys |-> {}, artifact |-> "zip", file |-> "c1",
     filename |-> DefaultFilename, entrypoint |-> E_empty, env |-> <<>>]

With(ev, key, field) ==
    [ev EXCEPT !.keys = @ \cup {key}, ![key] = field]

OptEntrypoint(ev) == {ev} \cup {With(ev, "entrypoint", e) : e \in Entrypoints}
OptEnv(ev) == {ev} \cup {With(ev, "env", e) : e \in EnvChoices}
OptFilename(ev) == {ev} \cup {With(ev, "filename", f) : f \in Filenames}

EventsNoPayload == OptEnv(NoEvent) \cup {With(NoEvent, "entrypoint", E_a_py)}
EventsArtifact ==
    UNION {OptEntrypoint(With(NoEvent, "artifact", a)) : a \in Artifacts}
    \cup UNION {OptEnv(With(NoEvent, "artifact", a)) : a \in Artifacts}
EventsFile ==
    UNION {UNION {OptEntrypoint(g) : g \in OptFilename(With(NoEvent, "file", c))}
           : c \in Contents}
    \cup UNION {OptEnv(With(With(NoEvent, "file", c), "entrypoint", e))
                : c \in {"c1"}, e \in {E_a_py, E_a_py_run}}
EventsBoth ==
    UNION {OptEntrypoint(With(With(NoEvent, "artifact", a), "file", "c1"))
           : a \in {"zip"}}
Events == EventsNoPayload \cup EventsArtifact \cup EventsFile \cup EventsBoth

\* event.get(key, default)
Get(ev, key, default) == IF key \in ev.keys THEN ev[key] ELSE default

\* lines 102 and 129: `if entrypoint:` is false for None and for ''
EntrypointGiven(ev) == "entrypoint" \in ev.keys /\ ev.entrypoint # <<>>

----------------------------------------------------------------------------
\* Exceptions

\* exceptions that derive from BaseException but not from Exception
BaseOnly == {"SystemExit"}
\* `except Exception` (lines 56 and 181) catches e
IsException(e) == e \notin BaseOnly

\* subprocess.run(..., timeout=30) of lines 188-190, 221-223, 234-236
TimeoutSeconds == 30
\* subprocess.run called without timeout=
NeverTimedOut(seconds) == FALSE

\* subprocess.run raises TimeoutExpired once the child has run that long
TimedOut(seconds) == seconds > TimeoutSeconds

----------------------------------------------------------------------------
\* Step 1 of runpod_handler: the env loop of lines 37-40

\* os.environ.setdefault(key, value) in place of the assignment
RECURSIVE SetEnvDefault(_, _)
SetEnvDefault(env, items) ==
    IF items = <<>> \/ ~IsStr(Head(items).value) THEN env
    ELSE SetEnvDefault(IF env[Head(items).key] = Unset
                       THEN [env EXCEPT ![Head(items).key] = Head(items).value]
                       ELSE env,
                       Tail(items))

\* the loop stops at the first value os.environ refuses
RECURSIVE SetEnv(_, _)
SetEnv(env, items) ==
    IF items = <<>> \/ ~IsStr(Head(items).value) THEN env
    ELSE SetEnv([env EXCEPT ![Head(items).key] = Head(items).value],
                Tail(items))

EnvFault(items) == \E i \in 1..Len(items) : ~IsStr(items[i].value)

\* the two tests of lines 43 and 47 in the other order
PayloadVariantsFileFirst(ev) ==
    IF "file" \in ev.keys THEN {"file"}
    ELSE IF "artifact" \in ev.keys THEN {"artifact"}
    ELSE {}

\* lines 43-54: the payload variant the request is handled through
PayloadVariants(ev) ==
    IF "artifact" \in ev.keys THEN {"artifact"}
    ELSE IF "file" \in ev.keys THEN {"file"}
    ELSE {}

----------------------------------------------------------------------------
\* The dicts runpod_handler returns

NoValue == [none |-> TRUE]

\* lines 51-54
Rejection ==
    [error |-> <<"No artifact or file provided in deployment">>,
     status |-> "FAILED"]

\* lines 57-65
CaughtOutcome(e) ==
    [error |-> <<"Deployment error: ", e>>, status |-> "FAILED",
     traceback |-> e]

\* lines 105-110
ArtifactDeployed(names) ==
    [message |-> <<"Artifact deployed successfully">>, files |-> names,
     status |-> "COMPLETED", workdir |-> ExtractDir]

\* lines 132-137
FileDeployed(filename, content) ==
    [message |-> <<"File ", filename, " deployed successfully">>,
     content_preview |-> content, status |-> "COMPLETED",
     filename |-> filename]

\* lines 173-179
EntrypointExecuted(entrypoint, names, result) ==
    [message |-> <<"Entrypoint ", entrypoint, " executed successfully">>,
     entrypoint |-> entrypoint, files |-> names, result |-> result,
     status |-> "COMPLETED"]

\* lines 192-196, 225-229, 238-242
SubprocessResult(rc) ==
    [stdout |-> "stdout", stderr |-> "stderr", returncode |-> rc]

\* lines 213-216
FunctionResult(symbol) ==
    [function_result |-> "value", function_name |-> symbol]

\* subprocess.run called with check=True
ReturncodeFaultChecked(rc) == IF rc # 0 THEN "CalledProcessError" ELSE "none"

\* subprocess.run is called without check=True: no exit code raises
ReturncodeFault(rc) == "none"

\* what a strategy can do: return a result dict or raise
Returned(r) == [raised |-> "none", result |-> r]
Raised(e) == [raised |-> e, result |-> NoValue]

\* What the world outside the worker does once a strategy has started: the
\* child process ends with some exit code after some time (or `node` is not
\* installed); the script loaded in-process is missing, fails while loading,
\* lacks the symbol, returns, or calls sys.exit().
NoHappening == [kind |-> "none", rc |-> 0, seconds |-> 0]
Happening(kind) == [NoHappening EXCEPT !.kind = kind]
Durations == {1, TimeoutSeconds + 1}

Happenings(c, F, dir) ==
    IF c.strategy \in SubprocessStrategies
    THEN {[kind |-> "exit", rc |-> rc, seconds |-> d]
          : rc \in 0..MaxReturnCode, d \in Durations}
         \cup (IF c.strategy = "execute_node_script"
               THEN {Happening("no_runtime")} ELSE {})
    ELSE IF \E f \in F : f.path = dir \o <<c.arg>>
         THEN {Happening("returns"), Happening("load_fault"),
               Happening("no_symbol"), Happening("system_exit")}
         ELSE {Happening("no_file")}

\* lines 186-242: what the strategy gives execute_entrypoint for it
StrategyOutcome(c, h) ==
    CASE h.kind = "exit" ->
            IF TimedOut(h.seconds) THEN Raised("TimeoutExpired")
            ELSE IF ReturncodeFault(h.rc) # "none"
                 THEN Raised(ReturncodeFault(h.rc))
                 ELSE Returned(SubprocessResult(h.rc))
      [] h.kind = "no_runtime" -> Raised("FileNotFoundError")
      [] h.kind = "no_file" -> Raised("FileNotFoundError")
      [] h.kind = "load_fault" -> Raised("ImportError")
      [] h.kind = "no_symbol" -> Raised("AttributeError")
      [] h.kind = "system_exit" -> Raised("SystemExit")
      [] h.kind = "returns" -> Returned(FunctionResult(c.symbol))

\* the workdir and files arguments of execute_entrypoint (lines 103, 130)
WorkDir == IF "artifact" \in variants THEN ExtractDir ELSE TempDir
FilesArg ==
    IF "artifact" \in variants THEN ZipEntries
    ELSE {Get(event, "filename", DefaultFilename)}

----------------------------------------------------------------------------
\* The state machine

Init ==
    /\ pc = "idle"
    /\ event = NoEvent
    /\ environ = [k \in EnvKeys |-> Unset]
    /\ cwd = Home
    /\ dirs = BaseDirs
    /\ files = {}
    /\ original_cwd = Unbound
    /\ exc = "none"
    /\ retval = NoValue
    /\ outcome = NoValue
    /\ escaped = "none"
    /\ call = NoCall
    /\ variants = {}
    /\ happened = NoHappening
    /\ entry_cwd = Unbound
    /\ start_cwd = Home

\* runpod_handler is called with a request (line 19)
Receive ==
    /\ pc \in {"idle", "done"}
    /\ \E ev \in Events : event' = ev
    /\ pc' = "env"
    /\ original_cwd' = Unbound
    /\ exc' = "none"
    /\ retval' = NoValue
    /\ outcome' = NoValue
    /\ call' = NoCall
    /\ variants' = {}
    /\ happened' = NoHappening
    /\ entry_cwd' = Unbound
    /\ start_cwd' = cwd
    /\ UNCHANGED <<environ, cwd, dirs, files, escaped>>

\* lines 37-40
ApplyEnv ==
    /\ pc = "env"
    /\ LET items == Get(event, "env", <<>>) IN
        /\ environ' = SetEnv(environ, items)
        /\ IF EnvFault(items)
           THEN exc' = "TypeError" /\ pc' = "except"
           ELSE exc' = exc /\ pc' = "dispatch"
    /\ UNCHANGED <<event, cwd, dirs, files, original_cwd, retval, outcome,
                   escaped, call, variants, happened, entry_cwd,
                   start_cwd>>

\* lines 43-54
Dispatch ==
    /\ pc = "dispatch"
    /\ variants' = PayloadVariants(event)
    /\ IF "artifact" \in PayloadVariants(event)
       THEN pc' = "artifact_with" /\ retval' = retval
       ELSE IF "file" \in PayloadVariants(event)
            THEN pc' = "file_with" /\ retval' = retval
            ELSE pc' = "return" /\ retval' = Rejection
    /\ UNCHANGED <<event, environ, cwd, dirs, files, original_cwd, exc,
                   outcome, escaped, call, happened, entry_cwd, start_cwd>>

\* lines 71 and 119: TemporaryDirectory().__enter__
CreateTempDir ==
    /\ pc \in {"artifact_with", "file_with"}
    /\ dirs' = dirs \cup {TempDir}
    /\ pc' = IF pc = "artifact_with" THEN "artifact_body" ELSE "file_body"
    /\ UNCHANGED <<event, environ, cwd, files, original_cwd, exc, retval,
                   outcome, escaped, call, variants, happened, entry_cwd,
                   start_cwd>>

\* lines 75-110
ArtifactBody ==
    /\ pc = "artifact_body"
    /\ IF event.artifact = "notbase64"
       THEN /\ exc' = "binascii.Error"
            /\ pc' = "with_exit"
            /\ UNCHANGED <<dirs, files, retval>>
       ELSE IF event.artifact = "notzip"
       THEN /\ files' = WriteFile(files, ZipPath, event.artifact)
            /\ dirs' = dirs \cup {ExtractDir}
            /\ exc' = "BadZipFile"
            /\ pc' = "with_exit"
            /\ UNCHANGED retval
       ELSE /\ files' = WriteFile(files, ZipPath, event.artifact)
                        \cup {[path |-> ExtractDir \o n, content |-> "c1"]
                              : n \in ZipEntries}
            /\ dirs' = dirs \cup {ExtractDir}
            /\ exc' = exc
            /\ IF EntrypointGiven(event)
               THEN pc' = "exec_enter" /\ retval' = retval
               ELSE pc' = "with_exit" /\ retval' = ArtifactDeployed(ZipEntries)
    /\ UNCHANGED <<event, environ, cwd, original_cwd, outcome, escaped,
                   call, variants, happened, entry_cwd, start_cwd>>

\* lines 120-137
FileBody ==
    /\ pc = "file_body"
    /\ LET filename == Get(event, "filename", DefaultFilename)
           file_path == Resolve(JoinPath(TempDir, filename), <<>>)
       IN IF CanOpenForWrite(dirs, file_path)
          THEN /\ files' = WriteFile(files, file_path, event.file)
               /\ exc' = exc
               /\ IF EntrypointGiven(event)
                  THEN pc' = "exec_enter" /\ retval' = retval
                  ELSE /\ pc' = "with_exit"
                       /\ retval' = FileDeployed(filename, event.file)
          ELSE /\ files' = files
               /\ exc' = "FileNotFoundError"
               /\ pc' = "with_exit"
               /\ retval' = retval
    /\ UNCHANGED <<event, environ, cwd, dirs, original_cwd, outcome, escaped,
                   call, variants, happened, entry_cwd, start_cwd>>

\* lines 143-148: os.getcwd() and os.chdir(workdir)
ExecEnter ==
    /\ pc = "exec_enter"
    /\ entry_cwd' = cwd
    /\ original_cwd' = cwd
    /\ cwd' = WorkDir
    /\ pc' = "exec_body"
    /\ UNCHANGED <<event, environ, dirs, files, exc, retval, outcome,
                   escaped, call, variants, happened, start_cwd>>

\* lines 150-183: the strategy runs; line 171 or the handler of lines
\* 181-183 restores the directory
ExecBody ==
    /\ pc = "exec_body"
    /\ LET c == StrategyCall(event.entrypoint) IN
        /\ call' = c
        /\ \E h \in Happenings(c, files, cwd) :
          LET end == StrategyOutcome(c, h) IN
            /\ happened' = h
            /\ IF end.raised = "none"
               THEN /\ cwd' = original_cwd
                    /\ retval' = EntrypointExecuted(event.entrypoint,
                                                    FilesArg, end.result)
                    /\ exc' = exc
               ELSE /\ cwd' = IF IsException(end.raised) THEN original_cwd
                              ELSE cwd
                    /\ retval' = retval
                    /\ exc' = end.raised
    /\ pc' = "with_exit"
    /\ UNCHANGED <<event, environ, dirs, files, original_cwd, outcome,
                   escaped, variants, entry_cwd, start_cwd>>

\* TemporaryDirectory().__exit__ of the with statements (lines 71, 119)
WithExit ==
    /\ pc = "with_exit"
    /\ dirs' = RemoveTree(dirs)
    /\ files' = RemoveFiles(files)
    /\ cwd' = CwdAfterRemove(cwd)
    /\ pc' = IF exc = "none" THEN "return" ELSE "except"
    /\ UNCHANGED <<event, environ, original_cwd, exc, retval, outcome,
                   escaped, call, variants, happened, entry_cwd, start_cwd>>

\* a return statement of lines 44, 48, 51 hands its dict to the caller
HandlerReturn ==
    /\ pc = "return"
    /\ outcome' = retval
    /\ pc' = "done"
    /\ UNCHANGED <<event, environ, cwd, dirs, files, original_cwd, exc,
                   retval, escaped, call, variants, happened, entry_cwd,
                   start_cwd>>

\* lines 56-65
HandlerExcept ==
    /\ pc = "except"
    /\ IsException(exc)
    /\ outcome' = CaughtOutcome(exc)
    /\ exc' = "none"
    /\ pc' = "done"
    /\ UNCHANGED <<event, environ, cwd, dirs, files, original_cwd, retval,
                   escaped, call, variants, happened, entry_cwd, start_cwd>>

\* line 56 does not catch it: the exception leaves runpod_handler
HandlerEscape ==
    /\ pc = "except"
    /\ ~IsException(exc)
    /\ escaped' = exc
    /\ exc' = "none"
    /\ pc' = "escaped"
    /\ UNCHANGED <<event, environ, cwd, dirs, files, original_cwd, retval,
                   outcome, call, variants, happened, entry_cwd, start_cwd>>

Next ==
    \/ Receive
    \/ ApplyEnv
    \/ Dispatch
    \/ CreateTempDir
    \/ ArtifactBody
    \/ FileBody
    \/ ExecEnter
    \/ ExecBody
    \/ WithExit
    \/ HandlerReturn
    \/ HandlerExcept
    \/ HandlerEscape

Spec == Init /\ [][Next]_vars

----------------------------------------------------------------------------
\* Properties

Exited == pc \in {"done", "escaped"}
HandlerReturned == pc = "done"
Status(o) == IF "status" \in DOMAIN o THEN o.status ELSE "(absent)"
UnderTempDir == {d \in dirs : IsPrefix(TempDir, d)}
                \cup {f.path : f \in {g \in files : IsPrefix(TempDir, g.path)}}
HasPayload(ev) == "artifact" \in ev.keys \/ "file" \in ev.keys

\* C1: runpod_handler always ends by returning a record with a status, and a
\* fault raised anywhere in it ends in a returned FAILED record carrying the
\* error; no fault leaves runpod_handler.
C1_NoFaultEscapes ==
    /\ pc # "escaped"
    /\ escaped = "none"
    /\ HandlerReturned => Status(outcome) \in {"COMPLETED", "FAILED"}
    /\ (HandlerReturned /\ happened.kind \in {"no_runtime", "no_file", "load_fault",
                                        "no_symbol", "system_exit"})
          => (Status(outcome) = "FAILED" /\ "error" \in DOMAIN outcome)

\* C2: for a request with a payload the working directory exists from its
\* creation until the with-block is left (materialization and entrypoint
\* execution included, the directory the entrypoint runs in too), and
\* nothing of it exists before it is created or once the handler is left,
\* whichever way it is left.
C2_WorkingDirectoryLifetime ==
    /\ pc \in {"artifact_body", "file_body", "exec_enter", "exec_body",
               "with_exit"} => (HasPayload(event) /\ TempDir \in dirs)
    /\ pc \in {"exec_enter", "exec_body"} => WorkDir \in dirs
    /\ pc \in {"idle", "env", "dispatch", "artifact_with", "file_with",
               "return", "except", "done", "escaped"} => UnderTempDir = {}

C2_Witness ==
    /\ pc = "done"
    /\ Status(outcome) = "FAILED"
    /\ call.strategy # "none"
    /\ TempDir \notin dirs

\* C3: when execute_entrypoint has exited (by return or by raising), the
\* current directory is the one it was entered with, and when the handler
\* is left the current directory is the one the request started with.
C3_CwdRestored ==
    /\ (pc = "with_exit" /\ happened.kind # "none") => cwd = entry_cwd
    /\ Exited => cwd = start_cwd

----------------------------------------------------------------------------
\* C4: strategy selection

ScriptOf(e) == ParseEntrypoint(e).script_part
IsPy(e) == EndsWith(ScriptOf(e), DotPy)
IsJsTs(e) == EndsWith(ScriptOf(e), DotJs) \/ EndsWith(ScriptOf(e), DotTs)
Ran(strategy, arg, symbol) ==
    call = [strategy |-> strategy, arg |-> arg, symbol |-> symbol]

\* C4 as stated: the symbol is whatever follows the first ':'; .py without
\* ':' runs the external interpreter, .py with ':symbol' the in-process
\* function on (script path, symbol), .js/.ts the script runtime on the
\* script path, anything else the shell on the raw entrypoint.
C4_SymbolIsWhateverFollowsColon ==
    call.strategy # "none" =>
      LET e == event.entrypoint
          d == ParseEntrypoint(e)
      IN /\ (IsPy(e) /\ ~d.has_function)
              => Ran("execute_python_script", d.script_part, <<>>)
         /\ (IsPy(e) /\ d.has_function)
              => Ran("execute_python_function", d.script_part, d.function_part)
         /\ IsJsTs(e) => Ran("execute_node_script", d.script_part, <<>>)
         /\ (~IsPy(e) /\ ~IsJsTs(e)) => Ran("execute_shell_command", e, <<>>)

\* C4 amended: as above, except that an empty symbol (an entrypoint such as
\* "a.py:") counts as no symbol: .py with no or an empty symbol runs the
\* external interpreter, .py with a non-empty symbol the in-process function.
\* "a.py", "a.py:run", "a.js" and "echo hi" select the four strategies.
C4_StrategySelection ==
    call.strategy # "none" =>
      LET e == event.entrypoint
          d == ParseEntrypoint(e)
          symbol == IF d.has_function THEN d.function_part ELSE <<>>
      IN /\ (IsPy(e) /\ symbol = <<>>)
              => Ran("execute_python_script", d.script_part, <<>>)
         /\ (IsPy(e) /\ symbol # <<>>)
              => Ran("execute_python_function", d.script_part, symbol)
         /\ IsJsTs(e) => Ran("execute_node_script", d.script_part, <<>>)
         /\ (~IsPy(e) /\ ~IsJsTs(e)) => Ran("execute_shell_command", e, <<>>)
         /\ e = E_a_py => Ran("execute_python_script", E_a_py, <<>>)
         /\ e = E_a_py_run
              => Ran("execute_python_function", E_a_py, <<"r", "u", "n">>)
         /\ e = E_a_js => Ran("execute_node_script", E_a_js, <<>>)
         /\ e = E_echo_hi => Ran("execute_shell_command", E_echo_hi, <<>>)
         /\ e = E_a_ts_x
              => Ran("execute_node_script", <<"a", ".", "t", "s">>, <<>>)

C4_Witness ==
    /\ pc = "done"
    /\ event.entrypoint = E_a_py_colon
    /\ call.strategy = "execute_python_script"

----------------------------------------------------------------------------
\* C5: a subprocess of any of the three subprocess strategies that ends
\* within the timeout with exit code rc, zero or not, gives a COMPLETED
\* outcome whose result.returncode is rc.
C5_ExitCodeIsData ==
    (Exited /\ happened.kind = "exit" /\ happened.seconds <= TimeoutSeconds)
      => /\ HandlerReturned
         /\ call.strategy \in SubprocessStrategies
         /\ Status(outcome) = "COMPLETED"
         /\ "result" \in DOMAIN outcome
         /\ outcome.result.returncode = happened.rc

C5_Witness ==
    /\ pc = "done"
    /\ happened.kind = "exit"
    /\ happened.seconds <= TimeoutSeconds
    /\ happened.rc = 1
    /\ call.strategy = "execute_shell_command"
    /\ Status(outcome) = "COMPLETED"

\* C6: a subprocess that runs past the 30 second timeout, a module that
\* fails to load and a symbol that is absent each end the request with a
\* returned FAILED outcome that has an error and no result, and the working
\* directory is removed.
StrategyFault ==
    \/ happened.kind = "exit" /\ happened.seconds > TimeoutSeconds
    \/ happened.kind \in {"no_file", "load_fault", "no_symbol"}

C6_StrategyFaultIsFatal ==
    (Exited /\ StrategyFault)
      => /\ HandlerReturned
         /\ Status(outcome) = "FAILED"
         /\ "error" \in DOMAIN outcome
         /\ "result" \notin DOMAIN outcome
         /\ UnderTempDir = {}

C6_Witness ==
    /\ pc = "done"
    /\ happened.kind = "exit"
    /\ happened.seconds > TimeoutSeconds
    /\ Status(outcome) = "FAILED"
    /\ outcome.error = <<"Deployment error: ", "TimeoutExpired">>

----------------------------------------------------------------------------
\* C7: an inline file is written inside the working directory only: no file
\* exists outside it, and a request whose filename resolves outside the
\* working directory ends FAILED; a filename inside it holds the content
\* while the request runs.
FilenameEscapes(ev) ==
    ~IsPrefix(TempDir,
              Resolve(JoinPath(TempDir, Get(ev, "filename", DefaultFilename)),
                      <<>>))

C7_WritesConfined ==
    /\ \A f \in files : IsPrefix(TempDir, f.path)
    /\ (HandlerReturned /\ variants = {"file"} /\ FilenameEscapes(event))
          => Status(outcome) = "FAILED"
    /\ (pc = "exec_enter" /\ variants = {"file"} /\ ~FilenameEscapes(event))
          => [path |-> TempDir \o Get(event, "filename", DefaultFilename).parts,
              content |-> event.file] \in files

----------------------------------------------------------------------------
\* C8 as stated: a request with neither payload key ends FAILED with the
\* missing-payload error and no working directory; a request with
\* 'artifact' is handled as an archive and a request with 'file' as an
\* inline file; never both.
C8_EachKeyItsVariant ==
    /\ Cardinality(variants) <= 1
    /\ (~HasPayload(event) /\ pc # "idle") => TempDir \notin dirs
    /\ (~HasPayload(event) /\ HandlerReturned)
          => (Status(outcome) = "FAILED" /\ outcome.error = Rejection.error)
    /\ HandlerReturned =>
          /\ "artifact" \in event.keys => "artifact" \in variants
          /\ "file" \in event.keys => "file" \in variants

\* C8 amended: the payload is looked at only when the env loop raised
\* nothing (otherwise the outcome is FAILED with that fault and no variant
\* is handled).  Then: neither key gives FAILED with the missing-payload
\* error and no working directory; 'artifact' is handled as an archive
\* whether or not 'file' is there too; 'file' without 'artifact' is handled
\* as an inline file; never both.
EnvRaised(ev) == EnvFault(Get(ev, "env", <<>>))

C8_OneVariantOrRejected ==
    /\ Cardinality(variants) <= 1
    /\ ((~HasPayload(event) \/ EnvRaised(event)) /\ pc # "idle")
          => TempDir \notin dirs
    /\ HandlerReturned =>
          IF EnvRaised(event)
          THEN /\ variants = {}
               /\ Status(outcome) = "FAILED"
               /\ outcome.error = <<"Deployment error: ", "TypeError">>
          ELSE /\ ~HasPayload(event)
                    => /\ Status(outcome) = "FAILED"
                       /\ outcome.error = Rejection.error
                       /\ variants = {}
               /\ "artifact" \in event.keys => variants = {"artifact"}
               /\ ("file" \in event.keys /\ "artifact" \notin event.keys)
                    => variants = {"file"}

C8_Witness ==
    /\ pc = "done"
    /\ {"artifact", "file"} \subseteq event.keys
    /\ variants = {"artifact"}
    /\ Status(outcome) = "COMPLETED"

----------------------------------------------------------------------------
\* C9: a returned outcome has status COMPLETED or FAILED, has a message, has
\* 'error' exactly when FAILED, and has 'result' only when an entrypoint ran
\* to completion.
C9_OutcomeShape ==
    HandlerReturned =>
      /\ Status(outcome) \in {"COMPLETED", "FAILED"}
      /\ "message" \in DOMAIN outcome
      /\ "error" \in DOMAIN outcome <=> Status(outcome) = "FAILED"
      /\ "result" \in DOMAIN outcome
            => (happened.kind \in {"exit", "returns"} /\ exc = "none")

----------------------------------------------------------------------------
\* C10: the env entries the loop assigned (those before the first value
\* os.environ refuses, the last entry of a key winning) are in os.environ
\* from the moment the payload is looked at until the handler is left,
\* whatever the outcome; and os.environ changes nowhere but in that loop, so
\* a later request sees what earlier requests set unless it overwrites it.
Assigned(items, i) == \A j \in 1..i : IsStr(items[j].value)
LastAssigned(items, i) ==
    /\ Assigned(items, i)
    /\ \A j \in (i + 1)..Len(items) :
          Assigned(items, j) => items[j].key # items[i].key

EnvInForce ==
    pc \notin {"idle", "env"} =>
      LET items == Get(event, "env", <<>>) IN
      \A i \in 1..Len(items) :
         LastAssigned(items, i) => environ[items[i].key] = items[i].value

EnvOnlySetByLoop ==
    \A k \in EnvKeys :
       environ'[k] # environ[k] =>
          /\ pc = "env"
          /\ LET items == Get(event, "env", <<>>) IN
             \E i \in 1..Len(items) :
                items[i].key = k /\ LastAssigned(items, i)
                /\ environ'[k] = items[i].value

C10_EnvPersists == [](EnvInForce) /\ [][EnvOnlySetByLoop]_vars

C10_Witness ==
    /\ pc = "exec_body"
    /\ "env" \notin event.keys
    /\ environ["K1"] = "v2"
    /\ environ["K2"] = "v1"

====
